---- MODULE Spec2Model ----
(***************************************************************************)
(* A model of the discuss client (python-discuss): the USP block framing   *)
(* of discuss/rpc.py (USPBlock.send, USPBlock.receive), the RPC client of  *)
(* discuss/rpc.py (RPCClient) and the retrying operations of               *)
(* discuss/client.py (autoreconnects, Client, Meeting, Transaction).       *)
(*                                                                         *)
(* its transaction streaming (Meeting.transactions) and the meeting        *)
(* locator of discuss/locator.py (locate).                                 *)
(*                                                                         *)
(* Seven specifications share the module:                                  *)
(*   SpecFrame   a block is written by USPBlock.send while USPBlock.receive *)
(*               reads the same byte stream;                                *)
(*   SpecClient  a caller invokes the operations of client.py on one        *)
(*               Client, the server and the network being the environment;  *)
(*   SpecSock    the socket calls of one RPCClient, interrupted by EINTR;   *)
(*   SpecRecv    USPBlock.receive reads a byte stream written by the peer;  *)
(*   SpecCodec   fields are put into one USPBlock and read from it;         *)
(*   SpecTrans   Meeting.transactions streams a range of transactions from  *)
(*               a server that answers every request;                       *)
(*   SpecLocate  locate searches the listed servers for a meeting.          *)
(***************************************************************************)
EXTENDS Integers, Sequences, FiniteSets, TLC

VARIABLES
    \* ---- SpecFrame: USPBlock.send / USPBlock.receive ----
    sblock,      \* the block being sent: [block_type, buffer]
    spc,         \* position of send: "start", "loop", "done"
    unsent,      \* send's local `unsent`
    first_pass,  \* send's local `first_pass`
    calls,       \* the arguments of the sendall calls made so far, in order
    wire,        \* the bytes written to the socket so far
    rpc,         \* position of receive
    rpos,        \* number of bytes of `wire` the receiver has consumed
    rblock,      \* receive's local `block`: [block_type, buffer]
    rlast,       \* receive's local `last`
    rsize,       \* receive's local `size`
    rbuf,        \* receive's local `buffer`
    shortHeader, \* a recv(2) of a header has returned fewer than 2 bytes
    closed,      \* the peer has closed the stream: no byte follows `wire`
    rsub,        \* the last subblock header receive unpacked, or -1
    rempty,      \* a recv of receive has returned zero bytes
    \* ---- SpecClient: RPCClient and the operations of client.py ----
    client,      \* "constructing", "live" or "none" (the constructor raised)
    auth,        \* RPCClient.auth
    socket,      \* RPCClient.socket: "none" or "open", the current connection
    info_loaded, \* Meeting.info_loaded
    first_block, \* kind of the first block written on the connection
    auth_blocks, \* number of authentication blocks written on the connection
    last_block,  \* the last block written on the connection
    pending,     \* blocks the server owes on the connection and not yet read
    stack,       \* the call stack: one frame per function being executed
    exc,         \* the exception being raised, or NoExc
    lastReply,   \* the block the last receive() returned, or NoBlock
    reconnects,  \* connect() calls autoreconnect has completed in this invocation
    attempts,    \* times the body of the invoked operation was started
    ncalls,      \* operations the caller has invoked so far
    outcome,     \* how the last invocation ended
    env,         \* the network and the server: "faulty" or "reliable"
    requested,   \* numbers of the transactions this invocation has requested
    posted,      \* add-transaction and text blocks this invocation has written
    \* ---- SpecSock: the socket calls of one RPCClient ----
    wrapper,     \* RPCClient.wrapper: "unset", "socket" or "SocketWrapper"
    kpc,         \* what the RPCClient is doing
    ksteps,      \* socket calls the block being transferred still needs
    eintrs,      \* socket calls interrupted so far
    raised,      \* the socket error the caller of the RPCClient has seen
    nops,        \* blocks transferred or connections reopened so far
    \* ---- SpecCodec: the fields of one USPBlock ----
    cpc,         \* what is done with the block: "put", "read", "raised",
                 \* "connect", "bytes", "send", or "none"
    cbuf,        \* USPBlock.buffer
    cfields,     \* the fields put into the block so far: [type, value]
    cread,       \* the fields read from the block so far: [type, value]
    cexc,        \* the exception the last put_* or read_* call raised
    clast,       \* the last put_* or read_* call: the buffer before it and
                 \* whether its argument had a NUL character
    ctoken,      \* connect's self.auth and authenticator
    \* ---- SpecLocate: locate(name) ----
    lpc,         \* position of locate
    lservers,    \* number of servers get_servers() returned
    lserver,     \* index of the server of the outer loop
    lprefix,     \* index of the prefix of the inner loop
    lsocket,     \* client.rpc.socket of the current Client: "none", "open", "closed"
    lopened,     \* connections create_connection has opened for locate
    lclosed,     \* connections closed by client.close()
    lfn,         \* the @autoreconnects method being executed
    lattempt,    \* 1, or 2 once autoreconnect runs the method again
    lresult,     \* "none", "mtg" (a Meeting), "None" or "raised"
    lexc         \* the exception locate raised

frameVars == <<sblock, spc, unsent, first_pass, calls, wire,
               rpc, rpos, rblock, rlast, rsize, rbuf, shortHeader,
               closed, rsub, rempty>>

clientVars == <<client, auth, socket, info_loaded, first_block, auth_blocks,
                last_block, pending, stack, exc, lastReply, reconnects,
                attempts, ncalls, outcome, env, requested, posted>>

sockVars == <<wrapper, kpc, ksteps, eintrs, raised, nops>>

codecVars == <<cpc, cbuf, cfields, cread, cexc, clast, ctoken>>

locateVars == <<lpc, lservers, lserver, lprefix, lsocket, lopened, lclosed,
                lfn, lattempt, lresult, lexc>>

vars == <<frameVars, clientVars, sockVars, codecVars, locateVars>>

\* what the actions of each specification leave alone
nonFrameVars == <<clientVars, sockVars, codecVars, locateVars>>
nonClientVars == <<frameVars, sockVars, codecVars, locateVars>>
nonSockVars == <<frameVars, clientVars, codecVars, locateVars>>
nonCodecVars == <<frameVars, clientVars, sockVars, locateVars>>
nonLocateVars == <<frameVars, clientVars, sockVars, codecVars>>

----------------------------------------------------------------------------
(* Bounds *)

\* payloads of up to MaxChunks full send chunks (plus or minus one byte)
MaxChunks == 2

\* operations the caller invokes on one Client
MaxCalls == 2

\* transactions asked of one Meeting.transactions call
MaxTrns == 2

\* blocks transferred or connections reopened by one RPCClient
MaxSockOps == 3

\* interruptions of socket calls
MaxEintr == 2

\* socket calls of one block transfer
MaxIO == 3

\* subblocks that precede the last subblock of a stream of the peer
MaxSubs == 2

\* fields put into, or read from, one block
MaxFields == 2

\* characters of a string put into a block
MaxStr == 2

\* payload bytes of a block received from the peer
MaxBytes == 4

\* bytes of the authenticator
MaxToken == 2

\* transactions asked of Meeting.transactions beyond buffer_size
MaxOver == 2

\* servers get_servers() returns at most
MaxServers == 3

----------------------------------------------------------------------------
(* Bytes and 16-bit words *)

Min(a, b) == IF a < b THEN a ELSE b

\* Pack16 with the low byte first
Pack16_Little(n) == <<n % 256, (n \div 256) % 256>>

\* pack("!H", n) for 0 <= n <= 65535
Pack16(n) == <<(n \div 256) % 256, n % 256>>

\* unpack("!H", b) for a 2-byte string b
Unpack16(b) == b[1] * 256 + b[2]

\* n | 0x8000 for a 16-bit n
Or8000(n) == IF (n \div 32768) % 2 = 1 THEN n ELSE n + 32768

\* And0FFF keeping every bit below the last-flag
And0FFF_Wide(n) == n % 32768

\* n & 0x8000 and n & 0x0FFF for a 16-bit n
And8000(n) == ((n \div 32768) % 2) * 32768
And0FFF(n) == n % 4096

\* s[i:j] of Python, for 0 <= i and 0 <= j
Slice(s, i, j) == SubSeq(s, i + 1, Min(j, Len(s)))

\* s[i:] of Python
Tail_(s, i) == SubSeq(s, i + 1, Len(s))

----------------------------------------------------------------------------
(* USPBlock.send *)

\* Maximum size of a subblock sent (magic_number of send)
send_magic_number == 508

\* Maximum size of a subblock accepted (magic_number of receive)
receive_magic_number == 4096

\* SendSplit comparing the payload against the subblock length (header included)
SendSplit_HeaderIncluded(u) ==
    IF Len(u) > send_magic_number + 2
    THEN [current |-> Slice(u, 0, send_magic_number),
          unsent  |-> Tail_(u, send_magic_number),
          last    |-> FALSE]
    ELSE [current |-> u, unsent |-> <<>>, last |-> TRUE]

\* SendSplit with `>=` for `>`: a payload of exactly 508 bytes is not the last
SendSplit_AtLeast(u) ==
    IF Len(u) >= send_magic_number
    THEN [current |-> Slice(u, 0, send_magic_number),
          unsent  |-> Tail_(u, send_magic_number),
          last    |-> FALSE]
    ELSE [current |-> u, unsent |-> <<>>, last |-> TRUE]

\* the split of `unsent` made by one pass of send's loop
SendSplit(u) ==
    IF Len(u) > send_magic_number
    THEN [current |-> Slice(u, 0, send_magic_number),
          unsent  |-> Tail_(u, send_magic_number),
          last    |-> FALSE]
    ELSE [current |-> u, unsent |-> <<>>, last |-> TRUE]

\* the subblock header of one pass of send's loop
SendHeader(current, last) ==
    LET header_number == Len(current) + 2
    IN  Pack16(IF last THEN Or8000(header_number) ELSE header_number)

\* sock.sendall(data)
Sendall(data) ==
    /\ calls' = Append(calls, data)
    /\ wire' = wire \o data

\* sock.sendall(pack("!H", self.block_type)); unsent = self.buffer
SendType ==
    /\ UNCHANGED nonFrameVars
    /\ spc = "start"
    /\ Sendall(Pack16(sblock.block_type))
    /\ unsent' = sblock.buffer
    /\ first_pass' = TRUE
    /\ spc' = "loop"
    /\ UNCHANGED <<sblock, rpc, rpos, rblock, rlast, rsize, rbuf, shortHeader,
                   closed, rsub, rempty>>

\* one pass of `while len(unsent) > 0 or first_pass`
SendSubblock ==
    /\ UNCHANGED nonFrameVars
    /\ spc = "loop"
    /\ Len(unsent) > 0 \/ first_pass
    /\ LET sp == SendSplit(unsent)
       IN  /\ Sendall(SendHeader(sp.current, sp.last) \o sp.current)
           /\ unsent' = sp.unsent
    /\ first_pass' = FALSE
    /\ UNCHANGED <<sblock, spc, rpc, rpos, rblock, rlast, rsize, rbuf,
                   shortHeader, closed, rsub, rempty>>

\* the loop condition is false: send returns
SendReturn ==
    /\ UNCHANGED nonFrameVars
    /\ spc = "loop"
    /\ ~(Len(unsent) > 0 \/ first_pass)
    /\ spc' = "done"
    /\ UNCHANGED <<sblock, unsent, first_pass, calls, wire,
                   rpc, rpos, rblock, rlast, rsize, rbuf, shortHeader,
                   closed, rsub, rempty>>

----------------------------------------------------------------------------
(* USPBlock.receive *)

\* the bytes written and not yet read
Avail == Len(wire) - rpos

\* a recv call returns: bytes are buffered, or the stream has ended
Readable == Avail > 0 \/ closed

\* the numbers of bytes a recv(n) may return when a bytes are buffered:
\* all it can, or about half of that (a short read); none at the end of
\* the stream
RecvCounts(n, a) ==
    LET m == Min(n, a) IN {m, (m + 1) \div 2}

\* the k bytes a recv returns
RecvBytes(k) == SubSeq(wire, rpos + 1, rpos + k)

\* last = (subheader & 0x8000) != 0
Last(subheader) == And8000(subheader) # 0

\* Size without the two header bytes taken off
Size_HeaderCounted(subheader) == And0FFF(subheader)

\* size = (subheader & 0x0FFF) - 2
Size(subheader) == And0FFF(subheader) - 2

\* Broken that takes an empty read for the end of the subblock
Broken_Never(old_len, new_len) == FALSE

\* if len(buffer) == old_len: raise ProtocolError("Connection broken ...")
Broken(old_len, new_len) == new_len = old_len

\* header = sock.recv(2); block_type, = unpack("!H", header)
RecvType ==
    /\ UNCHANGED nonFrameVars
    /\ rpc = "type"
    /\ Readable
    /\ \E k \in RecvCounts(2, Avail) :
         /\ rpos' = rpos + k
         /\ rempty' = (rempty \/ k = 0)
         /\ IF k < 2
            THEN /\ rpc' = "struct.error"
                 /\ shortHeader' = TRUE
                 /\ UNCHANGED rblock
            ELSE /\ rblock' = [block_type |-> Unpack16(RecvBytes(k)),
                               buffer |-> <<>>]
                 /\ rpc' = "subheader"
                 /\ UNCHANGED shortHeader
    /\ rlast' = FALSE
    /\ UNCHANGED <<sblock, spc, unsent, first_pass, calls, wire, rsize, rbuf,
                   closed, rsub>>

\* subheader, = unpack("!H", sock.recv(2)); last, size; the size check
RecvSubheader ==
    /\ UNCHANGED nonFrameVars
    /\ rpc = "subheader"
    /\ Readable
    /\ \E k \in RecvCounts(2, Avail) :
         /\ rpos' = rpos + k
         /\ rempty' = (rempty \/ k = 0)
         /\ IF k < 2
            THEN /\ rpc' = "struct.error"
                 /\ shortHeader' = TRUE
                 /\ UNCHANGED <<rlast, rsize, rbuf, rsub>>
            ELSE LET subheader == Unpack16(RecvBytes(k))
                 IN  /\ rsub' = subheader
                     /\ rlast' = Last(subheader)
                     /\ rsize' = Size(subheader)
                     /\ rbuf' = <<>>
                     /\ rpc' = IF Size(subheader) > receive_magic_number
                               THEN "ProtocolError" ELSE "payload"
                     /\ UNCHANGED shortHeader
    /\ UNCHANGED <<sblock, spc, unsent, first_pass, calls, wire, rblock, closed>>

\* one pass of `while len(buffer) < size`: buffer += sock.recv(size - len(buffer))
RecvPayload ==
    /\ UNCHANGED nonFrameVars
    /\ rpc = "payload"
    /\ Len(rbuf) < rsize
    /\ Readable
    /\ \E k \in RecvCounts(rsize - Len(rbuf), Avail) :
         /\ rpos' = rpos + k
         /\ rempty' = (rempty \/ k = 0)
         /\ rbuf' = rbuf \o RecvBytes(k)
         /\ rpc' = IF Broken(Len(rbuf), Len(rbuf) + k)
                   THEN "ProtocolError" ELSE "payload"
    /\ UNCHANGED <<sblock, spc, unsent, first_pass, calls, wire,
                   rblock, rlast, rsize, shortHeader, closed, rsub>>

\* block.buffer += buffer, then `while not last` or `return block`
RecvAppend ==
    /\ UNCHANGED nonFrameVars
    /\ rpc = "payload"
    /\ ~(Len(rbuf) < rsize)
    /\ rblock' = [rblock EXCEPT !.buffer = @ \o rbuf]
    /\ rpc' = IF rlast THEN "done" ELSE "subheader"
    /\ UNCHANGED <<sblock, spc, unsent, first_pass, calls, wire,
                   rpos, rlast, rsize, rbuf, shortHeader, closed, rsub, rempty>>

\* the peer closes its end of the connection
PeerClose ==
    /\ UNCHANGED nonFrameVars
    /\ ~closed
    /\ closed' = TRUE
    /\ UNCHANGED <<sblock, spc, unsent, first_pass, calls, wire, rpc, rpos,
                   rblock, rlast, rsize, rbuf, shortHeader, rsub, rempty>>

----------------------------------------------------------------------------
(* Protocol constants (discuss/constants.py) *)

\* "Each command has block type of command code + 400"
PROC_BASE == 400

REPLY_TYPE == 440
KRB_TICKET == 442
TFILE_BLK == 500

\* procedure codes
ADD_TRN == 1
DELETE_TRN == 3
GET_TRN == 9
GET_MTG_INFO == 11
WHO_AM_I == 16
ADD_TRN2 == 20
GET_TRN_INFO3 == 21

\* result codes of the server
DELETED_TRN == 7
NO_SUCH_TRN == 4
NO_SUCH_MTG == 3

----------------------------------------------------------------------------
(* Blocks, exceptions and frames of the client *)

NoBlock == [block_type |-> -1, payload |-> "none"]

\* USPBlock(block_type), its fields put
USPBlock(t) == [block_type |-> t, payload |-> "args"]

NoExc == [type |-> "none", code |-> 0]
Timeout == [type |-> "socket.timeout", code |-> 0]
ProtocolError == [type |-> "ProtocolError", code |-> 0]
DiscussError(code) == [type |-> "DiscussError", code |-> code]

\* operations made of one rpc.request and the parsing of its reply
SimpleOps == {"who_am_i", "load_info", "delete"}

\* the operations the caller invokes
TopOps == SimpleOps \cup {"get_transaction", "transactions", "post", "get_text"}

\* the procedure code of a simple operation
Base(f) ==
    CASE f = "who_am_i"  -> WHO_AM_I
      [] f = "load_info" -> GET_MTG_INFO
      [] f = "delete"    -> DELETE_TRN

\* the reply of the operation ends with a result code
HasResult(f) == f # "who_am_i"

\* the functions wrapped by @autoreconnects
Decorated(f) == f \notin {"connect", "Client.__init__"}

\* a new activation of function f
Frame(f) ==
    [f |-> f, pc |-> "start", att |-> 1,
     request |-> NoBlock, tfile |-> NoBlock, reply |-> NoBlock,
     signature |-> FALSE, use_last |-> FALSE, start |-> 1, count |-> 0,
     number |-> 0, to_request |-> 0, to_read |-> 0, cur |-> 0]

Top == stack[Len(stack)]
Depth == Len(stack)
SetTop(fr) == [stack EXCEPT ![Len(stack)] = fr]
Running == Depth > 0 /\ exc = NoExc
At(f, pc) == Running /\ Top.f = f /\ Top.pc = pc

\* blocks the server sends in answer to a command
Replies(proc) == IF proc = GET_TRN THEN 2 ELSE 1

\* the payloads the server may put in a block, by what parsing makes of them:
\* well-formed with result 0, too short, or well-formed with a result code
ReplyPayloads == {"ok", "short", "deleted", "error"}

ReplyTypes == {REPLY_TYPE, TFILE_BLK, 0}

ReplyBlocks == {[block_type |-> t, payload |-> p] :
                   t \in ReplyTypes, p \in ReplyPayloads}

\* the exception parsing the reply raises, NoExc if none
ParseResult(reply, hasResult) ==
    CASE reply.payload = "short" -> ProtocolError
      [] hasResult /\ reply.payload = "deleted" -> DiscussError(DELETED_TRN)
      [] hasResult /\ reply.payload = "error" -> DiscussError(NO_SUCH_TRN)
      [] OTHER -> NoExc

----------------------------------------------------------------------------
(* RPCClient.send, RPCClient.receive on the connection *)

\* no block has been written on the connection
NoWrite == [kind |-> "none", block_type |-> -1, proc |-> 0]

\* RPCClient.send(block) returned: the block is on the connection
Write(kind, block, proc) ==
    /\ first_block' = IF first_block = "none" THEN kind ELSE first_block
    /\ auth_blocks' = auth_blocks + (IF kind = "auth" THEN 1 ELSE 0)
    /\ last_block' = [kind |-> kind, block_type |-> block.block_type,
                      proc |-> proc]
    /\ pending' = pending + (IF kind = "cmd" THEN Replies(proc) ELSE 0)
    /\ requested' = IF kind = "cmd" /\ proc = GET_TRN_INFO3
                    THEN Append(requested, Top.number) ELSE requested
    /\ posted' = [cmd  |-> posted.cmd +
                             (IF kind = "cmd" /\ proc \in {ADD_TRN, ADD_TRN2}
                              THEN 1 ELSE 0),
                  text |-> posted.text + (IF kind = "data" THEN 1 ELSE 0)]

\* RPCClient.send(block): it returns, or the write times out
Send(kind, block, proc, next) ==
    \/ /\ Write(kind, block, proc)
       /\ stack' = SetTop(next)
       /\ UNCHANGED exc
    \/ /\ env = "faulty"
       /\ exc' = Timeout
       /\ UNCHANGED <<first_block, auth_blocks, last_block, pending, stack,
                      requested, posted>>

\* the blocks of a server that answers every command with a well-formed
\* reply, of a transaction or of a deleted one
ReliableReplies ==
    {[block_type |-> REPLY_TYPE, payload |-> p] : p \in {"ok", "deleted"}}

\* the results of RPCClient.receive(): a block the server owes, a timeout,
\* or ProtocolError when the connection breaks; a reliable server and
\* network give the block owed, and nothing while no block is owed
ReceiveResults ==
    IF env = "faulty"
    THEN (IF pending > 0 THEN ReplyBlocks ELSE {}) \cup {Timeout, ProtocolError}
    ELSE IF pending > 0 THEN ReliableReplies ELSE {}

IsBlock(r) == r \in ReplyBlocks

\* the bookkeeping of one RPCClient.receive() with result r
Receive(r) ==
    /\ lastReply' = IF IsBlock(r) THEN r ELSE NoBlock
    /\ pending' = IF IsBlock(r) THEN pending - 1 ELSE pending

\* the offset left out
Offset_None(block) == block

\* block.block_type += constants.PROC_BASE
Offset(block) == [block EXCEPT !.block_type = @ + PROC_BASE]

\* the check made against the wrong constant: anything but a text block passes
ReplyTypeOk_NotTfile(reply) == reply.block_type # TFILE_BLK

\* the check of request(): reply.block_type != constants.REPLY_TYPE
ReplyTypeOk(reply) == reply.block_type = REPLY_TYPE

----------------------------------------------------------------------------
(* RPCClient.connect and Client.__init__ *)

written == <<first_block, auth_blocks, last_block>>
connVars == <<socket, written, pending>>
histVars == <<reconnects, attempts, ncalls, outcome, env>>
sentVars == <<requested, posted>>

\* self.socket = socket.create_connection(...): a new connection, or it fails
ConnectCreate ==
    /\ At("connect", "start")
    /\ \/ /\ socket' = "open"
          /\ first_block' = "none"
          /\ auth_blocks' = 0
          /\ last_block' = NoWrite
          /\ pending' = 0
          /\ stack' = SetTop([Top EXCEPT !.pc = "ticket"])
          /\ UNCHANGED exc
       \/ /\ env = "faulty"
          /\ exc' = Timeout
          /\ UNCHANGED <<connVars, stack>>
    /\ UNCHANGED <<client, auth, info_loaded, lastReply, histVars, sentVars, nonClientVars>>

\* auth_block = USPBlock(KRB_TICKET); if self.auth: _get_krb5_ap_req(...),
\* which raises ProtocolError when Kerberos gives no usable ticket
ConnectTicket ==
    /\ At("connect", "ticket")
    /\ \/ /\ stack' = SetTop([Top EXCEPT !.pc = "send_auth",
                                         !.request = USPBlock(KRB_TICKET)])
          /\ UNCHANGED exc
       \/ /\ auth
          /\ env = "faulty"
          /\ exc' = ProtocolError
          /\ UNCHANGED stack
    /\ UNCHANGED <<client, auth, info_loaded, connVars, lastReply, histVars, sentVars,
                   nonClientVars>>

\* self.send(auth_block)
ConnectSendAuth ==
    /\ At("connect", "send_auth")
    /\ Send("auth", Top.request, 0, [Top EXCEPT !.pc = "return"])
    /\ UNCHANGED <<client, auth, socket, info_loaded, lastReply,
                   histVars, nonClientVars>>

\* Client.__init__: self.rpc = RPCClient(...), whose __init__ calls connect()
ClientInitRPC ==
    /\ At("Client.__init__", "start")
    /\ stack' = Append(SetTop([Top EXCEPT !.pc = "wait_connect"]),
                       Frame("connect"))
    /\ UNCHANGED <<client, auth, info_loaded, connVars, exc, lastReply,
                   histVars, sentVars, nonClientVars>>

\* Client.__init__: `if auth and self.who_am_i()...`
ClientInitWho ==
    /\ At("Client.__init__", "who")
    /\ stack' = Append(SetTop([Top EXCEPT !.pc = "wait_who"]),
                       Frame("who_am_i"))
    /\ UNCHANGED <<client, auth, info_loaded, connVars, exc, lastReply,
                   histVars, sentVars, nonClientVars>>

\* Client.__init__: `....startswith("???@"): raise ProtocolError(...)`
ClientInitCheck ==
    /\ At("Client.__init__", "check")
    /\ \E anonymous \in BOOLEAN :
         IF anonymous
         THEN exc' = ProtocolError /\ UNCHANGED stack
         ELSE stack' = SetTop([Top EXCEPT !.pc = "return"]) /\ UNCHANGED exc
    /\ UNCHANGED <<client, auth, info_loaded, connVars, lastReply, histVars, sentVars,
                   nonClientVars>>

----------------------------------------------------------------------------
(* The operations made of one rpc.request: who_am_i, load_info, delete *)

\* load_info: `if self.info_loaded and not force: return`
LoadInfoLoaded ==
    /\ At("load_info", "start")
    /\ info_loaded
    /\ stack' = SetTop([Top EXCEPT !.pc = "return"])
    /\ UNCHANGED <<client, auth, info_loaded, connVars, exc, lastReply,
                   histVars, sentVars, nonClientVars>>

\* request = USPBlock(code); rpc.request: block_type += PROC_BASE, send(block)
RequestSend ==
    /\ Running
    /\ Top.f \in SimpleOps
    /\ Top.pc = "start"
    /\ ~(Top.f = "load_info" /\ info_loaded)
    /\ LET request == Offset(USPBlock(Base(Top.f)))
       IN  Send("cmd", request, Base(Top.f),
                [Top EXCEPT !.pc = "receive", !.request = request])
    /\ UNCHANGED <<client, auth, socket, info_loaded, lastReply,
                   histVars, nonClientVars>>

\* rpc.request: reply = self.receive(), the check of the reply type, return
RequestReceive ==
    /\ Running
    /\ Top.f \in SimpleOps
    /\ Top.pc = "receive"
    /\ \E r \in ReceiveResults :
         /\ Receive(r)
         /\ IF ~IsBlock(r)
            THEN exc' = r /\ UNCHANGED stack
            ELSE IF ~ReplyTypeOk(r)
            THEN exc' = ProtocolError /\ UNCHANGED stack
            ELSE /\ stack' = SetTop([Top EXCEPT !.pc = "parse", !.reply = r])
                 /\ UNCHANGED exc
    /\ UNCHANGED <<client, auth, socket, info_loaded, written, histVars, sentVars,
                   nonClientVars>>

\* the reads of the reply's fields and of its result code
SimpleParse ==
    /\ Running
    /\ Top.f \in SimpleOps
    /\ Top.pc = "parse"
    /\ LET e == ParseResult(Top.reply, HasResult(Top.f))
       IN  IF e # NoExc
           THEN exc' = e /\ UNCHANGED <<stack, info_loaded>>
           ELSE /\ stack' = SetTop([Top EXCEPT !.pc = "return"])
                /\ info_loaded' = (info_loaded \/ Top.f = "load_info")
                /\ UNCHANGED exc
    /\ UNCHANGED <<client, auth, connVars, lastReply, histVars, sentVars, nonClientVars>>

----------------------------------------------------------------------------
(* Meeting.request_transaction, receive_transaction, get_transaction *)

RequestTransaction ==
    /\ At("request_transaction", "start")
    /\ LET request == Offset(USPBlock(GET_TRN_INFO3))
       IN  Send("cmd", request, GET_TRN_INFO3,
                [Top EXCEPT !.pc = "return", !.request = request])
    /\ UNCHANGED <<client, auth, socket, info_loaded, lastReply,
                   histVars, nonClientVars>>

\* reply = self.rpc.receive()
ReceiveTransaction ==
    /\ At("receive_transaction", "start")
    /\ \E r \in ReceiveResults :
         /\ Receive(r)
         /\ IF ~IsBlock(r)
            THEN exc' = r /\ UNCHANGED stack
            ELSE /\ stack' = SetTop([Top EXCEPT !.pc = "parse", !.reply = r])
                 /\ UNCHANGED exc
    /\ UNCHANGED <<client, auth, socket, info_loaded, written, histVars, sentVars,
                   nonClientVars>>

ParseTransaction ==
    /\ At("receive_transaction", "parse")
    /\ LET e == ParseResult(Top.reply, TRUE)
       IN  IF e # NoExc
           THEN exc' = e /\ UNCHANGED stack
           ELSE stack' = SetTop([Top EXCEPT !.pc = "return"]) /\ UNCHANGED exc
    /\ UNCHANGED <<client, auth, info_loaded, connVars, lastReply, histVars, sentVars,
                   nonClientVars>>

\* self.request_transaction(number)
GetTransactionRequest ==
    /\ At("get_transaction", "start")
    /\ stack' = Append(SetTop([Top EXCEPT !.pc = "wait_request"]),
                       [Frame("request_transaction") EXCEPT !.number = Top.number])
    /\ UNCHANGED <<client, auth, info_loaded, connVars, exc, lastReply,
                   histVars, sentVars, nonClientVars>>

\* return self.receive_transaction()
GetTransactionReceive ==
    /\ At("get_transaction", "receive")
    /\ stack' = Append(SetTop([Top EXCEPT !.pc = "wait_receive"]),
                       Frame("receive_transaction"))
    /\ UNCHANGED <<client, auth, info_loaded, connVars, exc, lastReply,
                   histVars, sentVars, nonClientVars>>

----------------------------------------------------------------------------
(* Meeting.transactions *)

\* Amount of requests which may be sent at one instant
buffer_size == 500

\* `if end == -1: self.load_info(); end = self.last`, then the loop's variables
TransactionsStart ==
    /\ At("transactions", "start")
    /\ IF Top.use_last
       THEN stack' = Append(SetTop([Top EXCEPT !.pc = "wait_info"]),
                            Frame("load_info"))
       ELSE stack' = SetTop([Top EXCEPT !.pc = "loop",
                                        !.to_request = Top.count,
                                        !.to_read = Top.count,
                                        !.cur = Top.start])
    /\ UNCHANGED <<client, auth, info_loaded, connVars, exc, lastReply,
                   histVars, sentVars, nonClientVars>>

\* the condition of the loop's `if`: send another request
SendAnother(fr) ==
    fr.to_read - fr.to_request <= buffer_size /\ fr.to_request > 0

\* self.request_transaction(cur)
TransactionsRequest ==
    /\ At("transactions", "loop")
    /\ Top.to_read # 0
    /\ SendAnother(Top)
    /\ stack' = Append(SetTop([Top EXCEPT !.pc = "wait_request"]),
                       [Frame("request_transaction") EXCEPT !.number = Top.cur])
    /\ UNCHANGED <<client, auth, info_loaded, connVars, exc, lastReply,
                   histVars, sentVars, nonClientVars>>

TransactionsReceive ==
    /\ At("transactions", "loop")
    /\ Top.to_read # 0
    /\ ~SendAnother(Top)
    /\ stack' = Append(SetTop([Top EXCEPT !.pc = "wait_receive"]),
                       Frame("receive_transaction"))
    /\ UNCHANGED <<client, auth, info_loaded, connVars, exc, lastReply,
                   histVars, sentVars, nonClientVars>>

TransactionsReturn ==
    /\ At("transactions", "loop")
    /\ Top.to_read = 0
    /\ stack' = SetTop([Top EXCEPT !.pc = "return"])
    /\ UNCHANGED <<client, auth, info_loaded, connVars, exc, lastReply,
                   histVars, sentVars, nonClientVars>>

\* `except DiscussError as err: if err.code != constants.DELETED_TRN: raise err`
Handles(fr, e) ==
    /\ fr.f = "transactions"
    /\ fr.pc = "wait_receive"
    /\ e.type = "DiscussError"
    /\ e.code = DELETED_TRN

\* the handler swallows the error; to_read -= 1
TransactionsExcept ==
    /\ Depth > 0
    /\ exc # NoExc
    /\ Handles(Top, exc)
    /\ exc' = NoExc
    /\ stack' = SetTop([Top EXCEPT !.pc = "loop", !.to_read = @ - 1])
    /\ UNCHANGED <<client, auth, info_loaded, connVars, lastReply, histVars, sentVars,
                   nonClientVars>>

----------------------------------------------------------------------------
(* Meeting.post and Transaction.get_text *)

\* request = USPBlock(PROC_BASE + (ADD_TRN2 if signature else ADD_TRN)); send
PostSendRequest ==
    /\ At("post", "start")
    /\ LET proc == IF Top.signature THEN ADD_TRN2 ELSE ADD_TRN
           request == USPBlock(PROC_BASE + proc)
       IN  Send("cmd", request, proc,
                [Top EXCEPT !.pc = "send_tfile", !.request = request,
                            !.tfile = USPBlock(TFILE_BLK)])
    /\ UNCHANGED <<client, auth, socket, info_loaded, lastReply,
                   histVars, nonClientVars>>

\* self.rpc.send(tfile)
PostSendTfile ==
    /\ At("post", "send_tfile")
    /\ Send("data", Top.tfile, 0, [Top EXCEPT !.pc = "receive"])
    /\ UNCHANGED <<client, auth, socket, info_loaded, lastReply,
                   histVars, nonClientVars>>

\* reply = self.rpc.receive() and the check of its type
PostReceive ==
    /\ At("post", "receive")
    /\ \E r \in ReceiveResults :
         /\ Receive(r)
         /\ IF ~IsBlock(r)
            THEN exc' = r /\ UNCHANGED stack
            ELSE IF ~ReplyTypeOk(r)
            THEN exc' = ProtocolError /\ UNCHANGED stack
            ELSE /\ stack' = SetTop([Top EXCEPT !.pc = "parse", !.reply = r])
                 /\ UNCHANGED exc
    /\ UNCHANGED <<client, auth, socket, info_loaded, written, histVars, sentVars,
                   nonClientVars>>

\* new_id, result = ...; `if result != 0: raise DiscussError(result)`
PostParse ==
    /\ At("post", "parse")
    /\ LET e == ParseResult(Top.reply, TRUE)
       IN  IF e # NoExc
           THEN exc' = e /\ UNCHANGED stack
           ELSE stack' = SetTop([Top EXCEPT !.pc = "get"]) /\ UNCHANGED exc
    /\ UNCHANGED <<client, auth, info_loaded, connVars, lastReply, histVars, sentVars,
                   nonClientVars>>

\* return self.get_transaction(new_id)
PostGetTransaction ==
    /\ At("post", "get")
    /\ stack' = Append(SetTop([Top EXCEPT !.pc = "wait_get"]),
                       [Frame("get_transaction") EXCEPT !.number = 1])
    /\ UNCHANGED <<client, auth, info_loaded, connVars, exc, lastReply,
                   histVars, sentVars, nonClientVars>>

\* request = USPBlock(PROC_BASE + GET_TRN); self.rpc.send(request)
GetTextSend ==
    /\ At("get_text", "start")
    /\ LET request == USPBlock(PROC_BASE + GET_TRN)
       IN  Send("cmd", request, GET_TRN,
                [Top EXCEPT !.pc = "receive_tfile", !.request = request])
    /\ UNCHANGED <<client, auth, socket, info_loaded, lastReply,
                   histVars, nonClientVars>>

\* tfile = self.rpc.receive()
GetTextReceiveTfile ==
    /\ At("get_text", "receive_tfile")
    /\ \E r \in ReceiveResults :
         /\ Receive(r)
         /\ IF ~IsBlock(r)
            THEN exc' = r /\ UNCHANGED stack
            ELSE /\ stack' = SetTop([Top EXCEPT !.pc = "receive_reply",
                                                !.tfile = r])
                 /\ UNCHANGED exc
    /\ UNCHANGED <<client, auth, socket, info_loaded, written, histVars, sentVars,
                   nonClientVars>>

\* reply = self.rpc.receive() and the check of both block types
GetTextReceiveReply ==
    /\ At("get_text", "receive_reply")
    /\ \E r \in ReceiveResults :
         /\ Receive(r)
         /\ IF ~IsBlock(r)
            THEN exc' = r /\ UNCHANGED stack
            ELSE IF Top.tfile.block_type # TFILE_BLK \/ ~ReplyTypeOk(r)
            THEN exc' = ProtocolError /\ UNCHANGED stack
            ELSE /\ stack' = SetTop([Top EXCEPT !.pc = "parse", !.reply = r])
                 /\ UNCHANGED exc
    /\ UNCHANGED <<client, auth, socket, info_loaded, written, histVars, sentVars,
                   nonClientVars>>

GetTextParse ==
    /\ At("get_text", "parse")
    /\ LET e == ParseResult(Top.reply, TRUE)
       IN  IF e # NoExc
           THEN exc' = e /\ UNCHANGED stack
           ELSE stack' = SetTop([Top EXCEPT !.pc = "return"]) /\ UNCHANGED exc
    /\ UNCHANGED <<client, auth, info_loaded, connVars, lastReply, histVars, sentVars,
                   nonClientVars>>

----------------------------------------------------------------------------
(* autoreconnects: calls, returns and exceptions *)

\* a bare `except:` in autoreconnect
Retries_Any(e) == TRUE

\* `except socket.timeout`
Retries(e) == e.type = "socket.timeout"

\* the exception is raised by the first call of f, inside the `try`
Catches(fr, e) ==
    /\ Decorated(fr.f)
    /\ fr.att = 1
    /\ fr.pc # "reconnect"
    /\ Retries(e)

\* the second call of f, `return f(self, *args, **kwargs)`: same arguments
Again(fr) ==
    [Frame(fr.f) EXCEPT !.att = 2, !.signature = fr.signature,
                        !.use_last = fr.use_last, !.start = fr.start,
                        !.count = fr.count, !.number = fr.number]

\* the caller's frame once the function it called has returned
Continue(fr) ==
    CASE fr.pc = "reconnect" -> Again(fr)
      [] fr.f = "get_transaction" /\ fr.pc = "wait_request" ->
            [fr EXCEPT !.pc = "receive"]
      [] fr.f = "get_transaction" /\ fr.pc = "wait_receive" ->
            [fr EXCEPT !.pc = "return"]
      [] fr.f = "transactions" /\ fr.pc = "wait_info" ->
            [fr EXCEPT !.pc = "loop", !.to_request = fr.count,
                       !.to_read = fr.count, !.cur = fr.start]
      [] fr.f = "transactions" /\ fr.pc = "wait_request" ->
            [fr EXCEPT !.pc = "loop", !.cur = @ + 1, !.to_request = @ - 1]
      [] fr.f = "transactions" /\ fr.pc = "wait_receive" ->
            [fr EXCEPT !.pc = "loop", !.to_read = @ - 1]
      [] fr.f = "post" /\ fr.pc = "wait_get" ->
            [fr EXCEPT !.pc = "return"]
      [] fr.f = "Client.__init__" /\ fr.pc = "wait_connect" ->
            [fr EXCEPT !.pc = IF auth THEN "who" ELSE "return"]
      [] fr.f = "Client.__init__" /\ fr.pc = "wait_who" ->
            [fr EXCEPT !.pc = "check"]

\* the caller invokes an operation of the client
Call ==
    /\ stack = <<>>
    /\ client = "live"
    /\ ncalls < MaxCalls
    /\ \E f \in TopOps, sig \in BOOLEAN, ul \in BOOLEAN, n \in 0..MaxTrns :
         /\ f # "post" => ~sig
         /\ f # "transactions" => ~ul /\ n = 0
         /\ stack' = <<[Frame(f) EXCEPT !.signature = sig, !.use_last = ul,
                                        !.count = n,
                                        !.number = IF f = "get_transaction"
                                                   THEN 1 ELSE 0]>>
    /\ ncalls' = ncalls + 1
    /\ reconnects' = 0
    /\ attempts' = 1
    /\ outcome' = "running"
    /\ lastReply' = NoBlock
    /\ requested' = <<>>
    /\ posted' = [cmd |-> 0, text |-> 0]
    /\ UNCHANGED <<client, auth, info_loaded, connVars, exc, env, nonClientVars>>

\* autoreconnect: `except socket.timeout: self.rpc.connect()`
AutoReconnect ==
    /\ Depth > 0
    /\ exc # NoExc
    /\ ~Handles(Top, exc)
    /\ Catches(Top, exc)
    /\ exc' = NoExc
    /\ stack' = Append(SetTop([Top EXCEPT !.pc = "reconnect"]),
                       Frame("connect"))
    /\ UNCHANGED <<client, auth, info_loaded, connVars, lastReply, histVars, sentVars,
                   nonClientVars>>

\* autoreconnect: connect() has returned, `return f(self, *args, **kwargs)`
Retry ==
    /\ Running
    /\ Depth > 1
    /\ Top.pc = "return"
    /\ stack[Depth - 1].pc = "reconnect"
    /\ stack' = Append(SubSeq(stack, 1, Depth - 2), Continue(stack[Depth - 1]))
    /\ reconnects' = reconnects + 1
    /\ attempts' = IF Depth = 2 THEN attempts + 1 ELSE attempts
    /\ UNCHANGED <<client, auth, info_loaded, connVars, exc, lastReply,
                   ncalls, outcome, env, sentVars, nonClientVars>>

\* a function returns to the function that called it
Return ==
    /\ Running
    /\ Depth > 1
    /\ Top.pc = "return"
    /\ stack[Depth - 1].pc # "reconnect"
    /\ stack' = Append(SubSeq(stack, 1, Depth - 2), Continue(stack[Depth - 1]))
    /\ UNCHANGED <<client, auth, info_loaded, connVars, exc, lastReply,
                   histVars, sentVars, nonClientVars>>

\* the invoked operation (or the constructor) returns to the caller
ReturnToCaller ==
    /\ Running
    /\ Depth = 1
    /\ Top.pc = "return"
    /\ stack' = <<>>
    /\ outcome' = "returned"
    /\ client' = "live"
    /\ UNCHANGED <<auth, info_loaded, connVars, exc, lastReply, reconnects,
                   attempts, ncalls, env, sentVars, nonClientVars>>

\* an exception no handler of the function catches leaves the function
Propagate ==
    /\ Depth > 0
    /\ exc # NoExc
    /\ ~Handles(Top, exc)
    /\ ~Catches(Top, exc)
    /\ stack' = SubSeq(stack, 1, Depth - 1)
    /\ IF Depth = 1
       THEN /\ outcome' = exc.type
            /\ exc' = NoExc
            /\ client' = IF client = "constructing" THEN "none" ELSE client
       ELSE UNCHANGED <<outcome, exc, client>>
    /\ UNCHANGED <<auth, info_loaded, connVars, lastReply, reconnects,
                   attempts, ncalls, env, sentVars, nonClientVars>>

----------------------------------------------------------------------------
(* RPCClient.__init__, connect, make_wrapper: the socket calls *)

\* the errors a call of socket.sendall or socket.recv raises
SocketErrors == {"EINTR", "ECONNRESET"}

\* RPCClient.__init__ calls connect(): create_connection, then
\* `if not hasattr(self, 'wrapper'): self.wrapper = self.socket`, then the
\* authentication block is sent
SockInit ==
    /\ kpc = "new"
    /\ wrapper' = IF wrapper = "unset" THEN "socket" ELSE wrapper
    /\ kpc' = "connect"
    /\ \E n \in 2..MaxIO : ksteps' = n
    /\ UNCHANGED <<eintrs, raised, nops, nonSockVars>>

\* RPCClient.__init__: connect() has returned, self.make_wrapper()
MakeWrapper ==
    /\ kpc = "connect"
    /\ ksteps = 0
    /\ wrapper' = "SocketWrapper"
    /\ kpc' = "idle"
    /\ UNCHANGED <<ksteps, eintrs, raised, nops, nonSockVars>>

\* RPCClient.send(block) or RPCClient.receive() is called
SockTransfer ==
    /\ kpc = "idle"
    /\ nops < MaxSockOps
    /\ kpc' \in {"send", "receive"}
    /\ \E n \in 2..MaxIO : ksteps' = n
    /\ nops' = nops + 1
    /\ raised' = "none"
    /\ UNCHANGED <<wrapper, eintrs, nonSockVars>>

\* RPCClient.connect() is called again (by autoreconnect): the wrapper stays
SockReconnect ==
    /\ kpc = "idle"
    /\ nops < MaxSockOps
    /\ kpc' = "reconnect"
    /\ wrapper' = IF wrapper = "unset" THEN "socket" ELSE wrapper
    /\ \E n \in 2..MaxIO : ksteps' = n
    /\ nops' = nops + 1
    /\ raised' = "none"
    /\ UNCHANGED <<eintrs, nonSockVars>>

\* a sendall or recv call made through self.wrapper returns
SockCallOk ==
    /\ kpc \in {"connect", "reconnect", "send", "receive"}
    /\ ksteps > 0
    /\ ksteps' = ksteps - 1
    /\ UNCHANGED <<wrapper, kpc, eintrs, raised, nops, nonSockVars>>

\* what the caller of self.wrapper.sendall / recv sees when the socket call
\* raises socket.error with errno e: "retry" when SocketWrapper calls itself
\* again, the error otherwise
WrapperOutcome(w, e) ==
    IF w = "SocketWrapper" /\ e = "EINTR" THEN "retry" ELSE e

\* a sendall or recv call made through self.wrapper raises socket.error
SockCallError ==
    /\ kpc \in {"connect", "reconnect", "send", "receive"}
    /\ ksteps > 0
    /\ \E e \in SocketErrors :
         /\ e = "EINTR" => eintrs < MaxEintr
         /\ eintrs' = IF e = "EINTR" THEN eintrs + 1 ELSE eintrs
         /\ IF WrapperOutcome(wrapper, e) = "retry"
            THEN UNCHANGED <<kpc, ksteps, raised>>
            ELSE /\ raised' = e
                 /\ kpc' = IF kpc = "connect" THEN "dead" ELSE "idle"
                 /\ ksteps' = 0
    /\ UNCHANGED <<wrapper, nops, nonSockVars>>

\* the block is transferred: send, receive or connect returns
SockReturn ==
    /\ kpc \in {"reconnect", "send", "receive"}
    /\ ksteps = 0
    /\ kpc' = "idle"
    /\ UNCHANGED <<wrapper, ksteps, eintrs, raised, nops, nonSockVars>>

----------------------------------------------------------------------------
(* The fields of a block: _formats, put_data, put_string, read_data, read_string *)

\* _formats: the USP name of a scalar type and its struct format
Formats ==
    [boolean |-> "!H", integer |-> "!h", cardinal |-> "!H",
     long_integer |-> "!i", long_cardinal |-> "!I"]

ScalarTypes == DOMAIN Formats

\* calcsize(fmt)
Calcsize(fmt) == IF fmt \in {"!H", "!h"} THEN 2 ELSE 4

\* Signed with every format read as unsigned
Signed_Never(fmt) == FALSE

\* the format is of a signed type
Signed(fmt) == fmt \in {"!h", "!i"}

\* A 16-bit value is an integer.  A 32-bit value x is the pair
\* <<x \div 65536, x % 65536>> of its high word (signed for a signed x) and
\* its low word, so that 2^32 - 1 is a value of the model.

\* pack(fmt, x) for x in the range of fmt
Pack(fmt, x) ==
    IF Calcsize(fmt) = 2
    THEN Pack16(x % 65536)
    ELSE Pack16(x[1] % 65536) \o Pack16(x[2])

\* the word w of an unpacked value, as the format reads its leading word
Word(fmt, w) == IF Signed(fmt) /\ w >= 32768 THEN w - 65536 ELSE w

\* unpack(fmt, data) for data of calcsize(fmt) bytes
Unpack(fmt, data) ==
    IF Calcsize(fmt) = 2
    THEN Word(fmt, Unpack16(SubSeq(data, 1, 2)))
    ELSE <<Word(fmt, Unpack16(SubSeq(data, 1, 2))), Unpack16(SubSeq(data, 3, 4))>>

CR == 13
LF == 10
NUL == 0

RECURSIVE Replace(_, _, _)
\* s.replace(old, new) for a non-empty old
Replace(s, old, new) ==
    IF Len(s) < Len(old) THEN s
    ELSE IF SubSeq(s, 1, Len(old)) = old
         THEN new \o Replace(Tail_(s, Len(old)), old, new)
         ELSE <<s[1]>> \o Replace(Tail(s), old, new)

\* Encode replacing the line feeds before the carriage returns
Encode_LfFirst(s) == Replace(Replace(s, <<LF>>, <<CR, LF>>), <<CR>>, <<CR, NUL>>)

\* encoded = s.replace("\r", "\r\0").replace("\n", "\r\n")
Encode(s) == Replace(Replace(s, <<CR>>, <<CR, NUL>>), <<LF>>, <<CR, LF>>)

\* encoded.replace("\r\n", "\n").replace("\r\0", "\r")
Decode(encoded) ==
    Replace(Replace(encoded, <<CR, LF>>, <<LF>>), <<CR, NUL>>, <<CR>>)

\* "\0" in s
HasNul(s) == \E i \in 1..Len(s) : s[i] = NUL

\* the buffer after put_data(fmt, x): self.buffer += pack(fmt, s)
PutData(buffer, fmt, x) == buffer \o Pack(fmt, x)

\* PutStringBuffer without the padding
PutStringBuffer_NoPad(buffer, s) ==
    PutData(buffer, Formats.cardinal, Len(Encode(s))) \o Encode(s)

\* the buffer after put_string(s) for a string without NUL
PutStringBuffer(buffer, s) ==
    LET encoded == Encode(s)
        b1 == PutData(buffer, Formats.cardinal, Len(encoded))
        b2 == b1 \o encoded
    IN  IF Len(encoded) % 2 = 1 THEN b2 \o <<NUL>> ELSE b2

\* TooShort that also refuses a buffer of exactly the bytes needed
TooShort_Strict(buffer, size) == Len(buffer) <= size

\* len(self.buffer) < size
TooShort(buffer, size) == Len(buffer) < size

\* Omit without the pad byte
Omit_NoPad(size) == size

\* omit = size + 1 if size % 2 == 1 else size
Omit(size) == IF size % 2 = 1 THEN size + 1 ELSE size

\* read_data(fmt) on a buffer: the exception raised, the value returned and
\* the buffer left
ReadData(buffer, fmt) ==
    LET size == Calcsize(fmt)
    IN  IF TooShort(buffer, size)
        THEN [exc |-> "ProtocolError", value |-> 0, buffer |-> buffer]
        ELSE [exc |-> "none",
              value |-> Unpack(fmt, Slice(buffer, 0, size)),
              buffer |-> Tail_(buffer, size)]

\* read_string() on a buffer
ReadStringResult(buffer) ==
    LET c == ReadData(buffer, Formats.cardinal)
        size == c.value
    IN  IF c.exc # "none" THEN [exc |-> c.exc, value |-> <<>>, buffer |-> c.buffer]
        ELSE IF TooShort(c.buffer, size)
        THEN [exc |-> "ProtocolError", value |-> <<>>, buffer |-> c.buffer]
        ELSE [exc |-> "none",
              value |-> Decode(Slice(c.buffer, 0, size)),
              buffer |-> Tail_(c.buffer, Min(Omit(size), Len(c.buffer)))]

\* no call made on the block yet
NoCall == [op |-> "none", type |-> "none", before |-> <<>>, nul |-> FALSE]

\* the values put for a scalar type: 0, the extremes, and one more
Values(t) ==
    CASE t = "boolean"       -> {0, 1, 65535}
      [] t = "integer"       -> {0, -32768, 32767}
      [] t = "cardinal"      -> {0, 258, 65535}
      [] t = "long_integer"  -> {<<0, 0>>, <<-32768, 0>>, <<32767, 65535>>}
      [] t = "long_cardinal" -> {<<0, 0>>, <<1, 2>>, <<65535, 65535>>}

RECURSIVE SeqsUpTo(_, _)
\* the sequences over S of length at most n
SeqsUpTo(S, n) ==
    IF n = 0 THEN {<<>>}
    ELSE LET shorter == SeqsUpTo(S, n - 1)
         IN  shorter \cup {Append(s, x) : s \in shorter, x \in S}

\* the strings put: carriage returns, line feeds, a letter and NUL
Strings == SeqsUpTo({CR, LF, 97, NUL}, MaxStr)

\* the payloads of blocks received from the peer
Received == SeqsUpTo({0, 1, 3, 97}, MaxBytes)

\* the authenticators of _get_krb5_ap_req
Authenticators == SeqsUpTo({0, 1, 255}, MaxToken)

\* put_<name>(x) for a scalar type
PutScalar ==
    /\ UNCHANGED nonCodecVars
    /\ cpc = "put"
    /\ Len(cfields) < MaxFields
    /\ \E t \in ScalarTypes : \E x \in Values(t) :
         /\ cbuf' = PutData(cbuf, Formats[t], x)
         /\ cfields' = Append(cfields, [type |-> t, value |-> x])
         /\ clast' = [op |-> "put", type |-> t, before |-> cbuf, nul |-> FALSE]
    /\ cexc' = "none"
    /\ UNCHANGED <<cpc, cread, ctoken>>

\* put_string(s)
PutString ==
    /\ UNCHANGED nonCodecVars
    /\ cpc = "put"
    /\ Len(cfields) < MaxFields
    /\ \E s \in Strings :
         /\ clast' = [op |-> "put", type |-> "string", before |-> cbuf,
                     nul |-> HasNul(s)]
         /\ IF HasNul(s)
            THEN \* raise USPError(...): the name USPError is not defined
                 /\ cexc' = "NameError"
                 /\ UNCHANGED <<cbuf, cfields>>
            ELSE /\ cexc' = "none"
                 /\ cbuf' = PutStringBuffer(cbuf, s)
                 /\ cfields' = Append(cfields, [type |-> "string", value |-> s])
    /\ UNCHANGED <<cpc, cread, ctoken>>

\* the block is complete: its fields are read back in the order put
StartRead ==
    /\ UNCHANGED nonCodecVars
    /\ cpc = "put"
    /\ cpc' = "read"
    /\ clast' = NoCall
    /\ cexc' = "none"
    /\ UNCHANGED <<cbuf, cfields, cread, ctoken>>

\* the type of the next field read: the next one of the fields put, or any
\* type on a block received
NextTypes ==
    IF cfields = <<>>
    THEN IF Len(cread) < MaxFields THEN ScalarTypes \cup {"string"} ELSE {}
    ELSE IF Len(cread) < Len(cfields)
         THEN {cfields[Len(cread) + 1].type} ELSE {}

\* the effect of a read_* call that gave result r
Read(t, r) ==
    /\ clast' = [op |-> "read", type |-> t, before |-> cbuf, nul |-> FALSE]
    /\ cbuf' = r.buffer
    /\ cexc' = r.exc
    /\ IF r.exc = "none"
       THEN /\ cread' = Append(cread, [type |-> t, value |-> r.value])
            /\ UNCHANGED cpc
       ELSE /\ cpc' = "raised"
            /\ UNCHANGED cread
    /\ UNCHANGED <<cfields, ctoken>>

\* read_<name>() for a scalar type
ReadScalar ==
    /\ UNCHANGED nonCodecVars
    /\ cpc = "read"
    /\ \E t \in NextTypes \cap ScalarTypes : Read(t, ReadData(cbuf, Formats[t]))

\* read_string()
ReadString ==
    /\ UNCHANGED nonCodecVars
    /\ cpc = "read"
    /\ "string" \in NextTypes
    /\ Read("string", ReadStringResult(cbuf))

\* connect: auth_block.put_cardinal(len(authenticator)), or put_cardinal(0)
ConnectPutLength ==
    /\ UNCHANGED nonCodecVars
    /\ cpc = "connect"
    /\ cbuf' = PutData(cbuf, Formats.cardinal,
                       IF ctoken.auth THEN Len(ctoken.authenticator) ELSE 0)
    /\ cpc' = IF ctoken.auth THEN "bytes" ELSE "send"
    /\ UNCHANGED <<cfields, cread, cexc, clast, ctoken>>

\* connect: for byte in authenticator: auth_block.put_cardinal(ord(byte))
ConnectPutByte ==
    /\ UNCHANGED nonCodecVars
    /\ cpc = "bytes"
    /\ LET i == (Len(cbuf) - 2) \div 2 + 1
       IN  IF i <= Len(ctoken.authenticator)
           THEN /\ cbuf' = PutData(cbuf, Formats.cardinal, ctoken.authenticator[i])
                /\ UNCHANGED cpc
           ELSE /\ cpc' = "send"
                /\ UNCHANGED cbuf
    /\ UNCHANGED <<cfields, cread, cexc, clast, ctoken>>

----------------------------------------------------------------------------
(* locate (discuss/locator.py) *)

\* the prefixes locate tries on each server
Prefixes == <<"/var/spool/discuss/", "/usr/spool/discuss/">>

\* the result codes a DiscussError of load_info carries
LocateCodes == {NO_SUCH_MTG, NO_SUCH_TRN}

\* what a call on the connection raises besides DiscussError and socket.timeout
LocateErrors == {"socket.error", "ProtocolError"}

\* an exception leaves locate: no statement of locate runs after it
LocateRaise(e) ==
    /\ lpc' = "done"
    /\ lresult' = "raised"
    /\ lexc' = e

\* servers = get_servers()
LocateGetServers ==
    /\ lpc = "start"
    /\ \/ \E n \in 0..MaxServers :
            /\ lservers' = n
            /\ lserver' = 1
            /\ lpc' = "servers"
            /\ UNCHANGED <<lresult, lexc>>
       \/ /\ LocateRaise("IOError")
          /\ UNCHANGED <<lservers, lserver>>
    /\ UNCHANGED <<lprefix, lsocket, lopened, lclosed, lfn, lattempt>>
    /\ UNCHANGED nonLocateVars

\* for server in servers: ... ; return None
LocateForServer ==
    /\ lpc = "servers"
    /\ IF lserver <= lservers
           THEN /\ lpc' = "connect"
                /\ lsocket' = "none"
                /\ UNCHANGED <<lresult, lexc>>
           ELSE /\ lpc' = "done"
                /\ lresult' = "None"
                /\ UNCHANGED <<lsocket, lexc>>
    /\ UNCHANGED <<lservers, lserver, lprefix, lopened, lclosed, lfn, lattempt>>
    /\ UNCHANGED nonLocateVars

\* Client(server): RPCClient.__init__ calls connect(), whose first statement
\* is socket.create_connection
LocateConnect ==
    /\ lpc = "connect"
    /\ \/ /\ lsocket' = "open"
          /\ lopened' = lopened + 1
          /\ lpc' = "auth"
          /\ UNCHANGED <<lresult, lexc>>
       \/ /\ \E e \in {"socket.error", "socket.timeout"} : LocateRaise(e)
          /\ UNCHANGED <<lsocket, lopened>>
    /\ UNCHANGED <<lservers, lserver, lprefix, lclosed, lfn, lattempt>>
    /\ UNCHANGED nonLocateVars

\* the rest of connect(): the Kerberos ticket is fetched and the
\* authentication block is sent on the new socket
LocateAuth ==
    /\ lpc = "auth"
    /\ \/ /\ lpc' = "call"
          /\ lfn' = "who_am_i"
          /\ lattempt' = 1
          /\ UNCHANGED <<lresult, lexc>>
       \/ /\ \E e \in LocateErrors \cup {"socket.timeout"} : LocateRaise(e)
          /\ UNCHANGED <<lfn, lattempt>>
    /\ UNCHANGED <<lservers, lserver, lprefix, lsocket, lopened, lclosed>>
    /\ UNCHANGED nonLocateVars

\* a call of an @autoreconnects method raises socket.timeout: the first time
\* autoreconnect reconnects, the second time the exception propagates
LocateTimeout ==
    IF lattempt = 1
        THEN /\ lpc' = "reconnect"
             /\ UNCHANGED <<lresult, lexc>>
        ELSE LocateRaise("socket.timeout")

\* Client.__init__: if auth and self.who_am_i().startswith("???@"): raise
LocateWhoAmI ==
    /\ lpc = "call"
    /\ lfn = "who_am_i"
    /\ \/ /\ lpc' = "prefixes"
          /\ lprefix' = 1
          /\ UNCHANGED <<lresult, lexc>>
       \/ /\ LocateRaise("ProtocolError")
          /\ UNCHANGED lprefix
       \/ /\ \E e \in LocateErrors : LocateRaise(e)
          /\ UNCHANGED lprefix
       \/ /\ LocateTimeout
          /\ UNCHANGED lprefix
    /\ UNCHANGED <<lservers, lserver, lsocket, lopened, lclosed, lfn, lattempt>>
    /\ UNCHANGED nonLocateVars

\* autoreconnect: self.rpc.connect(), then the method is called again.
\* connect() assigns the new socket to rpc.socket; the old one is not closed
LocateReconnect ==
    /\ lpc = "reconnect"
    /\ \/ /\ \E e \in {"socket.error", "socket.timeout"} : LocateRaise(e)
          /\ UNCHANGED <<lopened, lattempt>>
       \/ /\ lopened' = lopened + 1
          /\ \E e \in LocateErrors \cup {"socket.timeout"} : LocateRaise(e)
          /\ UNCHANGED lattempt
       \/ /\ lopened' = lopened + 1
          /\ lattempt' = 2
          /\ lpc' = "call"
          /\ UNCHANGED <<lresult, lexc>>
    /\ UNCHANGED <<lservers, lserver, lprefix, lsocket, lclosed, lfn>>
    /\ UNCHANGED nonLocateVars

\* for prefix in (...): mtg = Meeting(client, prefix + name); after the last
\* prefix the client is closed
LocateForPrefix ==
    /\ lpc = "prefixes"
    /\ IF lprefix <= Len(Prefixes)
           THEN /\ lpc' = "call"
                /\ lfn' = "load_info"
                /\ lattempt' = 1
           ELSE /\ lpc' = "close_next"
                /\ UNCHANGED <<lfn, lattempt>>
    /\ UNCHANGED <<lservers, lserver, lprefix, lsocket, lopened, lclosed,
                   lresult, lexc>>
    /\ UNCHANGED nonLocateVars

\* try: mtg.load_info(); return mtg
\* except DiscussError as err: continue if err.code == NO_SUCH_MTG, else
\* close and raise
LocateLoadInfo ==
    /\ lpc = "call"
    /\ lfn = "load_info"
    /\ \/ /\ lpc' = "done"
          /\ lresult' = "mtg"
          /\ UNCHANGED <<lprefix, lexc>>
       \/ \E code \in LocateCodes :
            IF code = NO_SUCH_MTG
                THEN /\ lprefix' = lprefix + 1
                     /\ lpc' = "prefixes"
                     /\ UNCHANGED <<lresult, lexc>>
                ELSE /\ lpc' = "close_raise"
                     /\ UNCHANGED <<lprefix, lresult, lexc>>
       \/ /\ \E e \in LocateErrors : LocateRaise(e)
          /\ UNCHANGED lprefix
       \/ /\ LocateTimeout
          /\ UNCHANGED lprefix
    /\ UNCHANGED <<lservers, lserver, lsocket, lopened, lclosed, lfn, lattempt>>
    /\ UNCHANGED nonLocateVars

\* client.close(); raise err
LocateCloseRaise ==
    /\ lpc = "close_raise"
    /\ lsocket' = "closed"
    /\ lclosed' = lclosed + 1
    /\ LocateRaise("DiscussError")
    /\ UNCHANGED <<lservers, lserver, lprefix, lopened, lfn, lattempt>>
    /\ UNCHANGED nonLocateVars

\* client.close() after the prefixes of one server; the next server follows
LocateCloseNext ==
    /\ lpc = "close_next"
    /\ lsocket' = "closed"
    /\ lclosed' = lclosed + 1
    /\ lserver' = lserver + 1
    /\ lpc' = "servers"
    /\ UNCHANGED <<lservers, lprefix, lopened, lfn, lattempt, lresult, lexc>>
    /\ UNCHANGED nonLocateVars

----------------------------------------------------------------------------
(* Specifications *)

\* the framing is not running
FrameIdle ==
    /\ sblock = [block_type |-> 0, buffer |-> <<>>]
    /\ spc = "done"
    /\ unsent = <<>>
    /\ first_pass = FALSE
    /\ calls = <<>>
    /\ wire = <<>>
    /\ rpc = "done"
    /\ rpos = 0
    /\ rblock = [block_type |-> 0, buffer |-> <<>>]
    /\ rlast = FALSE
    /\ rsize = 0
    /\ rbuf = <<>>
    /\ shortHeader = FALSE
    /\ closed = FALSE
    /\ rsub = -1
    /\ rempty = FALSE

\* there is no block whose fields are put or read
CodecIdle ==
    /\ cpc = "none"
    /\ cbuf = <<>>
    /\ cfields = <<>>
    /\ cread = <<>>
    /\ cexc = "none"
    /\ clast = [op |-> "none", type |-> "none", before |-> <<>>, nul |-> FALSE]
    /\ ctoken = [auth |-> FALSE, authenticator |-> <<>>]

\* locate is not running
LocateIdle ==
    /\ lpc = "none"
    /\ lservers = 0
    /\ lserver = 0
    /\ lprefix = 0
    /\ lsocket = "none"
    /\ lopened = 0
    /\ lclosed = 0
    /\ lfn = "none"
    /\ lattempt = 0
    /\ lresult = "none"
    /\ lexc = "none"

\* there is no RPCClient making socket calls
SockIdle ==
    /\ wrapper = "unset"
    /\ kpc = "none"
    /\ ksteps = 0
    /\ eintrs = 0
    /\ raised = "none"
    /\ nops = 0

\* there is no client
ClientIdle ==
    /\ client = "none"
    /\ auth = FALSE
    /\ socket = "none"
    /\ info_loaded = FALSE
    /\ first_block = "none"
    /\ auth_blocks = 0
    /\ last_block = NoWrite
    /\ pending = 0
    /\ stack = <<>>
    /\ exc = NoExc
    /\ lastReply = NoBlock
    /\ reconnects = 0
    /\ attempts = 0
    /\ ncalls = 0
    /\ outcome = "none"
    /\ env = "faulty"
    /\ requested = <<>>
    /\ posted = [cmd |-> 0, text |-> 0]

\* Client(server, port, auth, timeout) is being constructed
InitClient ==
    /\ client = "constructing"
    /\ auth \in BOOLEAN
    /\ socket = "none"
    /\ info_loaded = FALSE
    /\ first_block = "none"
    /\ auth_blocks = 0
    /\ last_block = NoWrite
    /\ pending = 0
    /\ stack = <<Frame("Client.__init__")>>
    /\ exc = NoExc
    /\ lastReply = NoBlock
    /\ reconnects = 0
    /\ attempts = 1
    /\ ncalls = 0
    /\ outcome = "running"
    /\ env = "faulty"
    /\ requested = <<>>
    /\ posted = [cmd |-> 0, text |-> 0]
    /\ FrameIdle
    /\ SockIdle
    /\ CodecIdle
    /\ LocateIdle

NextClient ==
    \/ ClientInitRPC
    \/ ClientInitWho
    \/ ClientInitCheck
    \/ ConnectCreate
    \/ ConnectTicket
    \/ ConnectSendAuth
    \/ Call
    \/ LoadInfoLoaded
    \/ RequestSend
    \/ RequestReceive
    \/ SimpleParse
    \/ RequestTransaction
    \/ ReceiveTransaction
    \/ ParseTransaction
    \/ GetTransactionRequest
    \/ GetTransactionReceive
    \/ TransactionsStart
    \/ TransactionsRequest
    \/ TransactionsReceive
    \/ TransactionsReturn
    \/ TransactionsExcept
    \/ PostSendRequest
    \/ PostSendTfile
    \/ PostReceive
    \/ PostParse
    \/ PostGetTransaction
    \/ GetTextSend
    \/ GetTextReceiveTfile
    \/ GetTextReceiveReply
    \/ GetTextParse
    \/ AutoReconnect
    \/ Retry
    \/ Return
    \/ ReturnToCaller
    \/ Propagate

SpecClient == InitClient /\ [][NextClient]_vars

\* RPCClient(server, port, auth, timeout) is being constructed
InitSock ==
    /\ wrapper = "unset"
    /\ kpc = "new"
    /\ ksteps = 0
    /\ eintrs = 0
    /\ raised = "none"
    /\ nops = 0
    /\ FrameIdle
    /\ ClientIdle
    /\ CodecIdle
    /\ LocateIdle

NextSock ==
    \/ SockInit
    \/ MakeWrapper
    \/ SockTransfer
    \/ SockReconnect
    \/ SockCallOk
    \/ SockCallError
    \/ SockReturn

SpecSock == InitSock /\ [][NextSock]_vars

----------------------------------------------------------------------------
(* SpecTrans: Meeting.transactions(start, end) on a reliable connection *)

\* the values of end - start + 1: empty and reversed ranges, short ranges,
\* and ranges around buffer_size
TransCounts ==
    {-2, -1, 0, 1, 2} \cup {buffer_size + d : d \in 0..MaxOver}

TransStarts == {1, 4}

\* a live Client on an authenticated connection, and the caller invokes
\* Meeting.transactions(start, end) with end # -1
InitTrans ==
    /\ client = "live"
    /\ auth = FALSE
    /\ socket = "open"
    /\ info_loaded = FALSE
    /\ first_block = "auth"
    /\ auth_blocks = 1
    /\ last_block = [kind |-> "auth", block_type |-> KRB_TICKET, proc |-> 0]
    /\ pending = 0
    /\ \E st \in TransStarts, n \in TransCounts :
          /\ st + n - 1 # -1
          /\ stack = <<[Frame("transactions") EXCEPT !.start = st, !.count = n]>>
    /\ exc = NoExc
    /\ lastReply = NoBlock
    /\ reconnects = 0
    /\ attempts = 1
    /\ ncalls = 1
    /\ outcome = "running"
    /\ env = "reliable"
    /\ requested = <<>>
    /\ posted = [cmd |-> 0, text |-> 0]
    /\ FrameIdle
    /\ SockIdle
    /\ CodecIdle
    /\ LocateIdle

NextTrans ==
    \/ TransactionsStart
    \/ TransactionsRequest
    \/ TransactionsReceive
    \/ TransactionsReturn
    \/ TransactionsExcept
    \/ RequestTransaction
    \/ ReceiveTransaction
    \/ ParseTransaction
    \/ Return
    \/ ReturnToCaller
    \/ Propagate

SpecTrans == InitTrans /\ [][NextTrans]_vars

----------------------------------------------------------------------------
(* SpecFrame: the blocks sent *)

\* a payload of L bytes
Payload(L, seed) == [i \in 1..L |-> (seed + 37 * i) % 256]

PayloadLens ==
    {0, 1, 2, 3} \cup
    {k * send_magic_number + d : k \in 1..MaxChunks, d \in {-1, 0, 1}}

BlockTypes == {0, 416, 442, 500, 32768, 65535}

Seeds == {0, 255}

InitFrame ==
    /\ sblock \in {[block_type |-> t, buffer |-> Payload(L, s)] :
                      t \in BlockTypes, L \in PayloadLens, s \in Seeds}
    /\ spc = "start"
    /\ unsent = <<>>
    /\ first_pass = FALSE
    /\ calls = <<>>
    /\ wire = <<>>
    /\ rpc = "type"
    /\ rpos = 0
    /\ rblock = [block_type |-> 0, buffer |-> <<>>]
    /\ rlast = FALSE
    /\ rsize = 0
    /\ rbuf = <<>>
    /\ shortHeader = FALSE
    /\ closed = FALSE
    /\ rsub = -1
    /\ rempty = FALSE
    /\ ClientIdle
    /\ SockIdle
    /\ CodecIdle
    /\ LocateIdle

NextFrame ==
    \/ SendType
    \/ SendSubblock
    \/ SendReturn
    \/ RecvType
    \/ RecvSubheader
    \/ RecvPayload
    \/ RecvAppend

SpecFrame == InitFrame /\ [][NextFrame]_vars

----------------------------------------------------------------------------
(* SpecRecv: receive on the streams of a peer *)

Max0(n) == IF n < 0 THEN 0 ELSE n

\* the payload length a subblock header declares to a reader of bits 0-14,
\* the bits send fills with len(current) + 2
Declared(h) == (h % 32768) - 2

\* a subblock as the peer writes it: the header word h, then n payload bytes
Subblock(h, n) == Pack16(h) \o Payload(n, h % 256)

\* headers of subblocks that are not the last: 0 and 2 payload bytes
LeadingHeaders == {2, 4}

\* headers of the subblock that ends a stream:
\*   0x8002, 0x8003   0 and 1 payload bytes, last
\*   0x0003           1 payload byte, not last
\*   0x8000, 0x8001   lengths below the header size
\*   0x8FFF           4093 payload bytes
\*   0x9000, 0x9002   4094 and 4096 payload bytes
\*   0x9003, 0xA000   4097 and 8190 payload bytes
FinalHeaders ==
    {32770, 32771, 3, 32768, 32769, 36863, 36864, 36866, 36867, 40960}

\* the payload bytes the peer delivers for header h: all, or all but one
Delivered(h) == {Max0(Declared(h)), Max0(Declared(h) - 1)}

RECURSIVE Leading(_)
\* the streams of at most n leading subblocks, each delivered whole
Leading(n) ==
    IF n = 0 THEN {<<>>}
    ELSE Leading(n - 1) \cup
         {Subblock(h, Declared(h)) \o t : h \in LeadingHeaders, t \in Leading(n - 1)}

InitRecv ==
    /\ sblock = [block_type |-> 0, buffer |-> <<>>]
    /\ spc = "done"
    /\ unsent = <<>>
    /\ first_pass = FALSE
    /\ calls = <<>>
    /\ \E l \in Leading(MaxSubs), h \in FinalHeaders :
          \E n \in Delivered(h) :
             wire = Pack16(REPLY_TYPE) \o l \o Subblock(h, n)
    /\ rpc = "type"
    /\ rpos = 0
    /\ rblock = [block_type |-> 0, buffer |-> <<>>]
    /\ rlast = FALSE
    /\ rsize = 0
    /\ rbuf = <<>>
    /\ shortHeader = FALSE
    /\ closed = FALSE
    /\ rsub = -1
    /\ rempty = FALSE
    /\ ClientIdle
    /\ SockIdle
    /\ CodecIdle
    /\ LocateIdle

NextRecv ==
    \/ RecvType
    \/ RecvSubheader
    \/ RecvPayload
    \/ RecvAppend
    \/ PeerClose

SpecRecv == InitRecv /\ [][NextRecv]_vars

----------------------------------------------------------------------------
(* SpecCodec: the fields put into and read from one block *)

NoToken == [auth |-> FALSE, authenticator |-> <<>>]

\* USPBlock(block_type): a new block to put fields into, a block received
\* from the peer, or the auth_block of connect
InitCodec ==
    /\ cfields = <<>>
    /\ cread = <<>>
    /\ cexc = "none"
    /\ clast = NoCall
    /\ \/ /\ cpc = "put"
          /\ cbuf = <<>>
          /\ ctoken = NoToken
       \/ /\ cpc = "read"
          /\ cbuf \in Received
          /\ ctoken = NoToken
       \/ /\ cpc = "connect"
          /\ cbuf = <<>>
          /\ ctoken \in {[auth |-> a, authenticator |-> t] :
                            a \in BOOLEAN, t \in Authenticators}
    /\ FrameIdle
    /\ ClientIdle
    /\ SockIdle
    /\ LocateIdle

NextCodec ==
    \/ PutScalar
    \/ PutString
    \/ StartRead
    \/ ReadScalar
    \/ ReadString
    \/ ConnectPutLength
    \/ ConnectPutByte

SpecCodec == InitCodec /\ [][NextCodec]_vars

\* locate(name) is called
InitLocate ==
    /\ lpc = "start"
    /\ lservers = 0
    /\ lserver = 0
    /\ lprefix = 0
    /\ lsocket = "none"
    /\ lopened = 0
    /\ lclosed = 0
    /\ lfn = "none"
    /\ lattempt = 0
    /\ lresult = "none"
    /\ lexc = "none"
    /\ FrameIdle
    /\ ClientIdle
    /\ SockIdle
    /\ CodecIdle

NextLocate ==
    \/ LocateGetServers
    \/ LocateForServer
    \/ LocateConnect
    \/ LocateAuth
    \/ LocateWhoAmI
    \/ LocateReconnect
    \/ LocateForPrefix
    \/ LocateLoadInfo
    \/ LocateCloseRaise
    \/ LocateCloseNext

SpecLocate == InitLocate /\ [][NextLocate]_vars

----------------------------------------------------------------------------
(* Properties of the framing *)

\* the subblocks written: every sendall call after the first
Subblocks == IF Len(calls) = 0 THEN <<>> ELSE Tail(calls)

\* the header word, the declared length (bits 0-14) and the payload of a subblock
HeaderOf(sb) == Unpack16(SubSeq(sb, 1, 2))
DeclaredOf(sb) == HeaderOf(sb) % 32768
FlagOf(sb) == HeaderOf(sb) \div 32768 = 1
ChunkLen(sb) == Len(sb) - 2

\* receive is at a recv call
RecvWaiting ==
    \/ rpc \in {"type", "subheader"}
    \/ rpc = "payload" /\ Len(rbuf) < rsize

CeilDiv(a, b) == (a + b - 1) \div b

\* C1: receive, run on the byte stream written by send, returns a block with
\* the block type and the payload bytes of the block sent, whatever the type
\* and the payload (empty and longer than 508 bytes included): it consumes
\* the whole stream and no more, it never raises a ProtocolError, it fails
\* only when a recv(2) of a header returned a single byte, and once the
\* stream is written and read it is not left waiting for more bytes.
C1_RoundTrip ==
    /\ rpc = "done" =>
          /\ rblock.block_type = sblock.block_type
          /\ rblock.buffer = sblock.buffer
          /\ rpos = Len(wire)
    /\ rpc # "ProtocolError"
    /\ rpc = "struct.error" => shortHeader
    /\ (spc = "done" /\ Avail = 0) => ~RecvWaiting

C1_Witness ==
    /\ rpc = "done"
    /\ Len(rblock.buffer) > 2 * send_magic_number

\* C3: for a payload of L >= 1 bytes send writes exactly ceil(L/508)
\* subblocks; each but the last carries 508 payload bytes and declares
\* length 510, the last carries the remaining L - 508*(ceil(L/508)-1) bytes,
\* between 1 and 508.
C3_Fragmentation ==
    (spc = "done" /\ Len(sblock.buffer) >= 1) =>
        LET L == Len(sblock.buffer)
            n == Len(Subblocks)
        IN  /\ n = CeilDiv(L, 508)
            /\ \A i \in 1..(n - 1) :
                  /\ ChunkLen(Subblocks[i]) = 508
                  /\ DeclaredOf(Subblocks[i]) = 510
            /\ ChunkLen(Subblocks[n]) = L - 508 * (n - 1)
            /\ ChunkLen(Subblocks[n]) \in 1..508

C3_Witness ==
    /\ spc = "done"
    /\ Len(sblock.buffer) = 2 * 508
    /\ Len(Subblocks) = 2

\* C4: send writes the 2-byte block type once, as its first write, then at
\* least one subblock; the last-flag 0x8000 is set on the final subblock
\* written and on no earlier one, and an empty payload gives exactly one
\* subblock, the bare header 0x8002.
C4_LastFlag ==
    /\ spc # "start" => calls[1] = Pack16(sblock.block_type)
    /\ \A i \in 1..Len(Subblocks) :
          /\ Len(Subblocks[i]) >= 2
          /\ DeclaredOf(Subblocks[i]) = Len(Subblocks[i])
          /\ FlagOf(Subblocks[i]) => i = Len(Subblocks)
    /\ spc = "done" =>
          /\ Len(Subblocks) >= 1
          /\ FlagOf(Subblocks[Len(Subblocks)])
          /\ sblock.buffer = <<>> => Subblocks = << <<128, 2>> >>

C4_Witness ==
    /\ spc = "done"
    /\ sblock.buffer = <<>>
    /\ Len(calls) = 2

----------------------------------------------------------------------------
(* Properties of receive *)

\* C11: when the stream ends after a subblock header and before the payload
\* bytes that header makes receive expect, receive raises ProtocolError
\* (the connection is broken); a block is returned, and a subblock is
\* appended, only with every expected payload byte read and no empty read.
C11_BrokenStream ==
    /\ (rempty /\ ~shortHeader) => rpc = "ProtocolError"
    /\ rpc = "done" => ~rempty
    /\ (rpc \in {"subheader", "done"} /\ rsub # -1) => Len(rbuf) = Max0(rsize)

C11_Witness ==
    /\ rpc = "ProtocolError"
    /\ closed
    /\ rempty
    /\ Len(rbuf) > 0
    /\ Len(rbuf) < rsize

\* C12: on a stream written by send, receive never fails because of the way
\* the bytes are split across recv results.
C12_ReadExact ==
    rpc # "struct.error"

\* C13: a subblock whose header declares a payload of 0 to 4096 bytes is
\* accepted with exactly that many bytes appended, and a header declaring
\* more than 4096 payload bytes makes receive raise ProtocolError.
C13_AcceptLimit ==
    rsub # -1 =>
        IF Declared(rsub) > receive_magic_number
        THEN rpc = "ProtocolError"
        ELSE rpc \in {"subheader", "done"} => Len(rbuf) = Max0(Declared(rsub))

\* C26: for every subblock header h that receive unpacks, the payload bytes
\* read for that subblock are max(0, (h & 0x0FFF) - 2) when the subblock is
\* appended and never more before; bits 12 to 14 of h play no part, and a
\* masked length below 2 gives an empty chunk and no error.
C26_MaskedLength ==
    rsub # -1 =>
        LET n == Max0((rsub % 4096) - 2)
        IN  /\ Len(rbuf) <= n
            /\ rpc \in {"subheader", "done"} => Len(rbuf) = n
            /\ (rsub % 4096 < 2 /\ ~shortHeader) =>
                   rpc \in {"payload", "subheader", "done"} /\ rbuf = <<>>

C26_Witness ==
    /\ rpc = "done"
    /\ rsub = 36867
    /\ Len(rbuf) = 1
    /\ Avail = 4096

----------------------------------------------------------------------------
(* Properties of the fields *)

\* one field was put into a new block and read back
OnePutAndRead(types) ==
    /\ cpc = "read"
    /\ Len(cfields) = 1
    /\ Len(cread) = 1
    /\ cfields[1].type \in types

\* C14: read_string on the payload put_string(S) produced returns exactly S,
\* for every S without NUL, carriage returns and line feeds included.
C14_StringRoundTrip ==
    OnePutAndRead({"string"}) =>
        /\ cread[1].value = cfields[1].value
        /\ Decode(Encode(cfields[1].value)) = cfields[1].value

C14_Witness ==
    /\ OnePutAndRead({"string"})
    /\ cfields[1].value = <<CR, LF>>
    /\ cread[1].value = <<CR, LF>>

\* C15: put_string of a string with a NUL character raises the invalid-input
\* error (USPError) and leaves the buffer as it was before the call.
C15_NulRejected ==
    (clast.op = "put" /\ clast.type = "string" /\ clast.nul) =>
        /\ cexc = "USPError"
        /\ cbuf = clast.before

\* the bytes a read of type t needs from buffer b: the width of a scalar;
\* for a string the length word, the bytes it declares and the pad byte
\* after an odd length
Needed(t, b) ==
    IF t # "string" THEN Calcsize(Formats[t])
    ELSE IF Len(b) < 2 THEN 2
    ELSE LET size == Unpack16(SubSeq(b, 1, 2))
         IN  2 + size + (size % 2)

\* C16: a field read that needs more bytes than the buffer holds raises
\* ProtocolError; for read_string the bytes needed are the declared bytes and
\* the pad byte after an odd declared length.
C16_ShortReadFails ==
    (clast.op = "read" /\ Len(clast.before) < Needed(clast.type, clast.before)) =>
        cexc = "ProtocolError"

\* C17: read_<scalar> on a buffer of at least the type's width (2 bytes for
\* boolean, integer, cardinal; 4 for long_integer, long_cardinal) removes
\* exactly that many bytes from the front; on a shorter buffer it raises
\* ProtocolError and leaves the buffer unchanged.
C17_ScalarWidth ==
    (clast.op = "read" /\ clast.type \in ScalarTypes) =>
        LET w == IF clast.type \in {"boolean", "integer", "cardinal"} THEN 2 ELSE 4
        IN  IF Len(clast.before) >= w
            THEN /\ cexc = "none"
                 /\ cbuf = Tail_(clast.before, w)
            ELSE /\ cexc = "ProtocolError"
                 /\ cbuf = clast.before

C17_Witness ==
    /\ clast.op = "read"
    /\ clast.type = "long_integer"
    /\ Len(clast.before) = 3
    /\ cexc = "ProtocolError"

\* 0, the minimum and the maximum of a scalar type
Boundary(t) ==
    CASE t = "boolean"       -> {0, 65535}
      [] t = "integer"       -> {0, -32768, 32767}
      [] t = "cardinal"      -> {0, 65535}
      [] t = "long_integer"  -> {<<0, 0>>, <<-32768, 0>>, <<32767, 65535>>}
      [] t = "long_cardinal" -> {<<0, 0>>, <<65535, 65535>>}

\* C18: read_<type> on the payload of put_<type>(x) returns x, for each
\* scalar type and x among 0, the minimum and the maximum of the type.
C18_ScalarRoundTrip ==
    (OnePutAndRead(ScalarTypes) /\ cfields[1].value \in Boundary(cfields[1].type)) =>
        /\ cread[1].type = cfields[1].type
        /\ cread[1].value = cfields[1].value

C18_Witness ==
    /\ OnePutAndRead({"long_integer"})
    /\ cfields[1].value = <<-32768, 0>>
    /\ cread[1].value = <<-32768, 0>>

\* C19: fields put into a new block and read back with the same types in
\* the same order come back with the same values, no read raises, and the
\* buffer is empty after the last read.
C19_FieldsRoundTrip ==
    (cpc \in {"read", "raised"} /\ cfields # <<>>) =>
        /\ cexc = "none"
        /\ \A i \in 1..Len(cread) : cread[i] = cfields[i]
        /\ Len(cread) = Len(cfields) => cbuf = <<>>

C19_Witness ==
    /\ cpc = "read"
    /\ Len(cfields) = 2
    /\ Len(cread) = 2
    /\ cfields[1].type = "string"
    /\ Len(cfields[1].value) = 1
    /\ cfields[2].type = "long_cardinal"

RECURSIVE Cardinals(_)
\* the bytes of the cardinals whose values are the bytes of t
Cardinals(t) ==
    IF t = <<>> THEN <<>> ELSE <<0, Head(t)>> \o Cardinals(Tail(t))

\* C20: the payload of the authentication block is the cardinal 0 without
\* authentication; with an authenticator of n bytes it is the cardinal n and
\* then one cardinal per byte, of the byte's value: 2 + 2n bytes.
C20_AuthPayload ==
    cpc = "send" =>
        IF ctoken.auth
        THEN /\ cbuf = <<0, Len(ctoken.authenticator)>> \o
                          Cardinals(ctoken.authenticator)
             /\ Len(cbuf) = 2 + 2 * Len(ctoken.authenticator)
        ELSE cbuf = <<0, 0>>

C20_Witness ==
    /\ cpc = "send"
    /\ ctoken.auth
    /\ ctoken.authenticator = <<255, 1>>
    /\ cbuf = <<0, 2, 0, 255, 0, 1>>

\* C27: while fields are put into a new block, failed calls included, the
\* length of the buffer is even.
C27_EvenPayload ==
    cpc \in {"put", "connect", "bytes", "send"} => Len(cbuf) % 2 = 0

C27_Witness ==
    /\ cpc = "put"
    /\ cexc = "NameError"
    /\ Len(cfields) = 1
    /\ cfields[1].type = "string"
    /\ Len(cfields[1].value) = 1
    /\ Len(cbuf) = 4

----------------------------------------------------------------------------
(* Properties of the client *)

\* the client is at a call of RPCClient.receive
AtReceive ==
    /\ Running
    /\ \/ Top.pc \in {"receive", "receive_tfile", "receive_reply"}
       \/ Top.f = "receive_transaction" /\ Top.pc = "start"

\* C2: one invocation of an operation by the caller, nested retrying
\* operations included, performs at most one reconnect and at most two
\* attempts.
C2_OneReconnect ==
    /\ reconnects <= 1
    /\ attempts <= 2

\* C5: when request() receives a reply block, it raises ProtocolError if the
\* block's type is not REPLY_TYPE, whatever the payload, and otherwise
\* returns that very block.
C5_RequestReplyType ==
    [][(/\ Running
        /\ Top.f \in SimpleOps
        /\ Top.pc = "receive"
        /\ pending' = pending - 1)
       => IF lastReply'.block_type # REPLY_TYPE
          THEN exc' = ProtocolError /\ stack' = stack
          ELSE /\ exc' = NoExc
               /\ stack'[Depth].pc = "parse"
               /\ stack'[Depth].reply = lastReply']_vars

C5_Witness ==
    /\ Depth > 0
    /\ Top.f \in SimpleOps
    /\ Top.pc = "receive"
    /\ exc = ProtocolError
    /\ lastReply.block_type = TFILE_BLK
    /\ lastReply.payload = "ok"

\* C6: every command block written carries its procedure code plus PROC_BASE,
\* the offset applied once: by request, by the operations that send directly,
\* and in the second attempt of a retried operation.
C6_CommandType ==
    last_block.kind = "cmd" =>
        last_block.block_type = last_block.proc + PROC_BASE

C6_Witness ==
    /\ last_block.kind = "cmd"
    /\ last_block.proc = GET_TRN_INFO3
    /\ attempts = 2
    /\ Depth > 0
    /\ stack[1].f = "get_transaction"

\* C7: on every connection the first block written is the authentication
\* block, of type KRB_TICKET, written once and before every command block,
\* and connect is never at a receive.
C7_AuthFirst ==
    /\ first_block \in {"none", "auth"}
    /\ auth_blocks <= 1
    /\ last_block.kind = "auth" => last_block.block_type = KRB_TICKET
    /\ (Depth > 0 /\ Top.f = "connect") => ~AtReceive

\* C8: the client is never at a receive while the server owes no block on
\* the connection.
C8_NoIdleReceive == AtReceive => pending > 0

\* C9: an error other than a timeout raised in an operation leaves the
\* operation at once: no reconnect, no second attempt, the connection and
\* the error unchanged.
C9_ErrorsPropagate ==
    [][(/\ Depth > 0
        /\ exc # NoExc
        /\ exc.type \in {"ProtocolError", "DiscussError"}
        /\ ~Handles(Top, exc))
       => /\ stack' = SubSeq(stack, 1, Depth - 1)
          /\ UNCHANGED <<connVars, reconnects, attempts>>
          /\ IF Depth = 1 THEN outcome' = exc.type ELSE exc' = exc]_vars

C9_Witness ==
    /\ Depth > 1
    /\ exc = DiscussError(NO_SUCH_TRN)
    /\ Top.f = "receive_transaction"
    /\ Top.att = 1
    /\ socket = "open"

\* C23: when an operation of a Meeting or a Transaction, invoked on a
\* connection on which the server owed nothing (the first operation on a new
\* Client), has returned or has raised a DiscussError, the server owes no
\* block on the current connection: every reply to the commands the
\* operation wrote has been read.
C23_RepliesRead ==
    (stack = <<>> /\ ncalls = 1 /\ outcome \in {"returned", "DiscussError"}) =>
        pending = 0

\* C24: one call of Meeting.post writes the add-transaction command block at
\* most once and the text block at most once, over all the connections it
\* uses.
C24_PostOnce ==
    /\ posted.cmd <= 1
    /\ posted.text <= 1

\* C21: during Meeting.transactions the requests written whose reply has
\* not been read are never more than buffer_size.
C21_Outstanding ==
    (Depth > 0 /\ stack[1].f = "transactions") => pending <= buffer_size

\* C22: with a server that answers every request, Meeting.transactions(start,
\* end) requests the transactions start, start + 1, ... in this order, is
\* never at a receive while no reply is owed, and is at its return with
\* max(0, end - start + 1) requests written and every reply read.
C22_TransactionsTerminate ==
    (Depth > 0 /\ stack[1].f = "transactions") =>
        /\ \A i \in 1..Len(requested) : requested[i] = stack[1].start + i - 1
        /\ AtReceive => pending > 0
        /\ stack[1].pc = "return" =>
              /\ Len(requested) = Max0(stack[1].count)
              /\ pending = 0

----------------------------------------------------------------------------
(* Properties of the socket calls *)

\* C10: no socket call of the RPCClient, the write of the authentication
\* block by the first connect included, lets an interruption (EINTR) reach
\* the caller.
C10_EintrHidden == raised # "EINTR"

----------------------------------------------------------------------------
(* Properties of locate *)

\* C25: when locate returns None or raises, every connection it opened has
\* been closed; when it returns a meeting, the only connection left open is
\* the one of the returned meeting
C25_LocateCloses ==
    /\ lresult \in {"None", "raised"} => lopened = lclosed
    /\ lresult = "mtg" => (lopened = lclosed + 1 /\ lsocket = "open")

====
